---- MODULE Spec2Model ----
(***************************************************************************)
(* Model of the interpretability computation of                            *)
(* imdb-interpretability-data-preparation.ipynb: the pattern of a linear   *)
(* text classifier (cell "Rendering the model interpretable") and the      *)
(* per-document word scores and top words (cell "Explanations for single   *)
(* data points").                                                          *)
(*                                                                         *)
(* Numbers.  The notebook computes in floating point; the model computes   *)
(* exactly.  Every scaled quantity of the notebook is an integer divided   *)
(* by the square root of a positive integer, so a real number is the       *)
(* record [num |-> a, rad |-> r], standing for a / sqrt(r).  A record with *)
(* rad = 0 stands for a division by zero (NaN or an infinity).             *)
(* Probabilities are integers in units of 1/ProbUnit, feature values are   *)
(* term counts.  Rows (documents), columns (vocabulary indices) and        *)
(* classes are numbered from 0, as in the notebook.                        *)
(***************************************************************************)
EXTENDS Integers, Sequences, FiniteSets, TLC

\* ------------------------------------------------------------- bounds
NDocs == 2
NFeatures == 4
MaxDocLen == 3
ProbUnit == 10
TopKLen == 6

\* ------------------------------------------------- program constants
\* top_what = 3
TopWhat == 3
\* the two sentiment classes, 'neg' (column 0) and 'pos' (column 1)
NClasses == 2

VARIABLES
    predictions_proba,  \* clf.predict_proba(X_test): doc -> class -> probability
    X_test,             \* vect.transform(...): doc -> vocabulary index -> value
    top_what,           \* the number of words to highlight
    labels_normalized,  \* doc -> class -> real
    data_scaled,        \* doc -> vocabulary index -> real
    prediction_sign,    \* doc -> -1, 0 or 1
    pattern,            \* vocabulary index -> real
    word_scores,        \* doc -> vocabulary index -> real
    sample,             \* the sampled documents, in the order of the loop
    i,                  \* the loop counter of "for i in range(len(sample))"
    idx,                \* sample.index[i] of the iteration last run
    top_words,          \* top_words of the iteration last run
    pc                  \* the statement to run next

vars == <<predictions_proba, X_test, top_what, labels_normalized, data_scaled,
          prediction_sign, pattern, word_scores, sample, i, idx, top_words, pc>>

\* A name not yet assigned in the notebook's namespace.
Unset == <<>>

\* ------------------------------------------------------------ numbers
RECURSIVE GCD(_, _)
GCD(a, b) == IF b = 0 THEN a ELSE GCD(b, a % b)

Real(a, r) == [num |-> a, rad |-> r]

Neg(x) == Real(0 - x.num, x.rad)

\* x * y
Mul(x, y) == Real(x.num * y.num, x.rad * y.rad)

\* s * x for an integer s
Times(s, x) == Real(s * x.num, x.rad)

IsFinite(x) == x.rad > 0

\* x < y, for finite x and y: a/sqrt(r) < b/sqrt(q) iff a*sqrt(q) < b*sqrt(r),
\* decided on the signs and on the squares a*a*q and b*b*r
Less(x, y) ==
    IF x.rad = y.rad THEN x.num < y.num
    ELSE LET g == GCD(x.rad, y.rad)
             l == x.num * x.num * (y.rad \div g)
             r == y.num * y.num * (x.rad \div g)
         IN  IF x.num < 0
             THEN (y.num >= 0) \/ (l > r)
             ELSE (y.num > 0) /\ (l < r)

Same(x, y) == ~Less(x, y) /\ ~Less(y, x)

\* x > 0
Positive(x) == x.num > 0

\* ------------------------------------------------------------- arrays
RECURSIVE SumTo(_, _)
\* f[0] + ... + f[n-1]
SumTo(f, n) == IF n = 0 THEN 0 ELSE SumTo(f, n - 1) + f[n - 1]

NRows(M) == Cardinality(DOMAIN M)

\* M[:, j]
Column(M, j) == [r \in DOMAIN M |-> M[r][j]]

\* ---------------------------------------------------- StandardScaler
\* n^2 * unit^2 * var_ of a column of integers in units of 1/unit
\* (var_ is the population variance, about the mean also when with_mean=False)
ScaledVar(v) ==
    LET n == NRows(v)
        s == SumTo(v, n)
    IN  n * SumTo([r \in DOMAIN v |-> v[r] * v[r]], n) - s * s

\* Mutant of HandleZerosInScale: a scale of 0 is left as it is.
ZeroScaleKept(V, n, unit) == V

\* scale_ = _handle_zeros_in_scale(sqrt(var_)): a scale of 0 becomes 1.
\* The result r stands for scale_ = sqrt(r) / (n * unit).
HandleZerosInScale(V, n, unit) ==
    IF V = 0 THEN (n * unit) * (n * unit) ELSE V

\* Mutant of FitTransformColumn: the column is never centred.
FitTransformColumnUncentred(v, unit, with_mean) ==
    LET n == NRows(v)
        R == HandleZerosInScale(ScaledVar(v), n, unit)
    IN  [r \in DOMAIN v |-> Real(n * v[r], R)]

\* StandardScaler(with_mean).fit_transform of one column:
\* (v - mean_) / scale_ or v / scale_
FitTransformColumn(v, unit, with_mean) ==
    LET n == NRows(v)
        s == SumTo(v, n)
        R == HandleZerosInScale(ScaledVar(v), n, unit)
    IN  [r \in DOMAIN v |->
            Real(IF with_mean THEN n * v[r] - s ELSE n * v[r], R)]

\* StandardScaler(with_mean).fit_transform(M), column by column
FitTransform(M, unit, with_mean) ==
    LET cols == DOMAIN M[0]
        T == [j \in cols |-> FitTransformColumn(Column(M, j), unit, with_mean)]
    IN  [r \in DOMAIN M |-> [j \in cols |-> T[j][r]]]

\* ----------------------------------------------------------- pattern
\* Mutant of Project: the sum misses the first row.
ProjectMissingFirstRow(y, M) ==
    [j \in DOMAIN M[0] |->
        Real(SumTo([r \in DOMAIN M |-> IF r = 0 THEN 0 ELSE y[r].num * M[r][j].num],
                   NRows(M)),
             y[0].rad * M[0][j].rad)]

\* y.T @ M for a dense column y and a matrix M: one entry per column of M.
\* The entries of one column of M share their rad, as do those of y.
Project(y, M) ==
    LET n == NRows(M)
    IN  [j \in DOMAIN M[0] |->
            Real(SumTo([r \in DOMAIN M |-> y[r].num * M[r][j].num], n),
                 y[0].rad * M[0][j].rad)]

\* np.sign
NpSign(x) == IF x > 0 THEN 1 ELSE IF x < 0 THEN 0 - 1 ELSE 0

\* Mutant of Argmax: the last index of the largest entry.
ArgmaxLast(row) ==
    CHOOSE c \in DOMAIN row :
        /\ \A e \in DOMAIN row : row[e] <= row[c]
        /\ \A e \in DOMAIN row : row[e] = row[c] => e <= c

\* row.argmax(): the first index of the largest entry
Argmax(row) ==
    CHOOSE c \in DOMAIN row :
        /\ \A e \in DOMAIN row : row[e] <= row[c]
        /\ \A e \in DOMAIN row : row[e] = row[c] => c <= e

\* Mutant of PredictionSignOf: the sign is not negated.
PredictionSignNotNegated(row) == NpSign(2 * Argmax(row) - 1)

\* -np.sign(argmax - .5), computed on 2 * (argmax - .5)
PredictionSignOf(row) == 0 - NpSign(2 * Argmax(row) - 1)

\* Mutant of PatternOf: the column of class 1 is projected.
PatternOfClassOne(ln, ds) == Project(Column(ln, 1), ds)

\* labels_normalized[:,0].T @ data_scaled
PatternOf(ln, ds) == Project(Column(ln, 0), ds)

\* The pattern cell as a function of its two inputs.
EstimatePattern(P, X) ==
    PatternOf(FitTransform(P, ProbUnit, TRUE), FitTransform(X, 1, FALSE))

\* -------------------------------------------------------- word scores
\* Mutant of Indicator: the scaled feature value itself, as in a o x_i.
Magnitude(x) == x.num

\* (data_scaled > 0) * 1.
Indicator(x) == IF Positive(x) THEN 1 ELSE 0

\* Mutant of ScoreRow: the prediction sign is left out.
ScoreRowUnsigned(sign, row, pat) ==
    [j \in DOMAIN row |-> Times(Indicator(row[j]), pat[j])]

\* one row of diags(prediction_sign) * ((data_scaled>0)*1.) @ diags(pattern)
ScoreRow(sign, row, pat) ==
    [j \in DOMAIN row |-> Times(sign * Indicator(row[j]), pat[j])]

WordScoresOf(signs, ds, pat) ==
    [r \in DOMAIN ds |-> ScoreRow(signs[r], ds[r], pat)]

\* ---------------------------------------------------------- top words
RECURSIVE ArgsortsOf(_, _)
\* The orders argsort() may return for the indices S of row: ascending by
\* value; the default kind (quicksort) is not stable, so indices of equal
\* value come in any order.
ArgsortsOf(row, S) ==
    IF S = {} THEN {<<>>}
    ELSE UNION { { <<m>> \o t : t \in ArgsortsOf(row, S \ {m}) } :
                 m \in {c \in S : \A e \in S : ~Less(row[e], row[c])} }

Argsorts(row) == ArgsortsOf(row, DOMAIN row)

\* Mutant of SliceFrom: s[-0:] is taken for the last 0 elements.
SliceFromMinusZeroEmpty(s, start) ==
    LET n == Len(s)
        b == IF start <= 0
             THEN (IF n + start < 0 THEN 0 ELSE n + start)
             ELSE (IF start > n THEN n ELSE start)
    IN  SubSeq(s, b + 1, n)

\* s[start:] of Python, for a sequence s numbered from 1
SliceFrom(s, start) ==
    LET n == Len(s)
        b == IF start < 0
             THEN (IF n + start < 0 THEN 0 ELSE n + start)
             ELSE (IF start > n THEN n ELSE start)
    IN  SubSeq(s, b + 1, n)

\* s[::-1]
Reversed(s) == [p \in 1..Len(s) |-> s[Len(s) + 1 - p]]

\* Mutant of TopOf: the slice is not reversed.
TopOfNotReversed(order, k) == SliceFrom(order, 0 - k)

\* order[-k:][::-1]
TopOf(order, k) == Reversed(SliceFrom(order, 0 - k))

\* The values row.argsort()[-k:][::-1] may have.
TopWordsOf(row, k) == {TopOf(order, k) : order \in Argsorts(row)}

\* ------------------------------------------------------------- inputs
Docs == 0..(NDocs - 1)
Vocabulary == 0..(NFeatures - 1)
Classes == 0..(NClasses - 1)

\* Term counts of a document of at most MaxDocLen words of the vocabulary.
FeatureRows ==
    {row \in [Vocabulary -> 0..MaxDocLen] : SumTo(row, NFeatures) <= MaxDocLen}

\* Probability of class 0, in units of 1/ProbUnit.
ProbVals == {1, ProbUnit \div 2, ProbUnit - 1, ProbUnit}

\* Rows of predict_proba: the two probabilities sum to 1.
ProbRows == {[c \in Classes |-> IF c = 0 THEN p ELSE ProbUnit - p] : p \in ProbVals}

Init ==
    /\ predictions_proba \in [Docs -> ProbRows]
    /\ X_test \in [Docs -> FeatureRows]
    /\ top_what = TopWhat
    /\ labels_normalized = Unset
    /\ data_scaled = Unset
    /\ prediction_sign = Unset
    /\ pattern = Unset
    /\ word_scores = Unset
    /\ sample = Unset
    /\ i = 0
    /\ idx = 0
    /\ top_words = Unset
    /\ pc = "labels_normalized"

\* ------------------------------------------------------------ actions
\* labels_normalized = StandardScaler().fit_transform(predictions_proba)
ScaleLabels ==
    /\ pc = "labels_normalized"
    /\ labels_normalized' = FitTransform(predictions_proba, ProbUnit, TRUE)
    /\ pc' = "data_scaled"
    /\ UNCHANGED <<predictions_proba, X_test, top_what, data_scaled,
                   prediction_sign, pattern, word_scores, sample, i, idx, top_words>>

\* data_scaled = StandardScaler(with_mean=False).fit_transform(X_test)
ScaleData ==
    /\ pc = "data_scaled"
    /\ data_scaled' = FitTransform(X_test, 1, FALSE)
    /\ pc' = "prediction_sign"
    /\ UNCHANGED <<predictions_proba, X_test, top_what, labels_normalized,
                   prediction_sign, pattern, word_scores, sample, i, idx, top_words>>

\* prediction_sign = -np.sign(predictions_proba.argmax(axis=1) - .5)
PredictionSign ==
    /\ pc = "prediction_sign"
    /\ prediction_sign' =
           [r \in DOMAIN predictions_proba |-> PredictionSignOf(predictions_proba[r])]
    /\ pc' = "pattern"
    /\ UNCHANGED <<predictions_proba, X_test, top_what, labels_normalized,
                   data_scaled, pattern, word_scores, sample, i, idx, top_words>>

\* pattern = labels_normalized[:,0].T @ data_scaled
Pattern ==
    /\ pc = "pattern"
    /\ pattern' = PatternOf(labels_normalized, data_scaled)
    /\ pc' = "word_scores"
    /\ UNCHANGED <<predictions_proba, X_test, top_what, labels_normalized,
                   data_scaled, prediction_sign, word_scores, sample, i, idx, top_words>>

\* word_scores = diags(prediction_sign) * ((data_scaled>0)*1.) @ diags(pattern)
WordScores ==
    /\ pc = "word_scores"
    /\ word_scores' = WordScoresOf(prediction_sign, data_scaled, pattern)
    /\ pc' = "sample"
    /\ UNCHANGED <<predictions_proba, X_test, top_what, labels_normalized,
                   data_scaled, prediction_sign, pattern, sample, i, idx, top_words>>

\* The selections test_df.sample(n) may make: n distinct documents in any order.
Samples(rows, n) ==
    {s \in [1..n -> rows] : \A a, b \in 1..n : s[a] = s[b] => a = b}

\* sample = test_df.sample(n=...): every document of the model is sampled
Sample ==
    /\ pc = "sample"
    /\ sample' \in Samples(DOMAIN word_scores, NRows(word_scores))
    /\ i' = 0
    /\ pc' = "loop"
    /\ UNCHANGED <<predictions_proba, X_test, top_what, labels_normalized,
                   data_scaled, prediction_sign, pattern, word_scores, idx, top_words>>

\* One iteration of "for i in range(len(sample))":
\*   idx = sample.index[i]
\*   top_words = word_scores[idx,:].toarray().flatten().argsort()[-top_what:][::-1]
\* The loop ends with the iteration that exhausts the range.
TopWords ==
    /\ pc = "loop"
    /\ i < Len(sample)
    /\ idx' = sample[i + 1]
    /\ top_words' \in TopWordsOf(word_scores[sample[i + 1]], top_what)
    /\ i' = i + 1
    /\ pc' = IF i + 1 = Len(sample) THEN "done" ELSE "loop"
    /\ UNCHANGED <<predictions_proba, X_test, top_what, labels_normalized,
                   data_scaled, prediction_sign, pattern, word_scores, sample>>

Next ==
    \/ ScaleLabels
    \/ ScaleData
    \/ PredictionSign
    \/ Pattern
    \/ WordScores
    \/ Sample
    \/ TopWords

Spec == Init /\ [][Next]_vars

\* ------------------------------------------------ the top words alone
\* Relevance values of a score row, in tenths.
ScoreVals == {0 - 5, 0, 5, 9}

ScoreRows == [0..(TopKLen - 1) -> {Real(v, 10 * 10) : v \in ScoreVals}]

\* The values of top_what tried: from below 0 to above the row's length.
TopWhatVals == (0 - 1)..(TopKLen + 1)

\* The state after the word_scores statement, for one document whose score
\* row and whose top_what are drawn freely.
InitTopK ==
    /\ predictions_proba = Unset
    /\ X_test = Unset
    /\ top_what \in TopWhatVals
    /\ labels_normalized = Unset
    /\ data_scaled = Unset
    /\ prediction_sign = Unset
    /\ pattern = Unset
    /\ word_scores \in [{0} -> ScoreRows]
    /\ sample = Unset
    /\ i = 0
    /\ idx = 0
    /\ top_words = Unset
    /\ pc = "sample"

NextTopK ==
    \/ Sample
    \/ TopWords

SpecTopK == InitTopK /\ [][NextTopK]_vars

\* ------------------------------------------------------------- claims
\* The iteration last run has assigned top_words.
Ranked == i > 0

\* The score row top_words was taken from, and its entries.
RankedRow == word_scores[idx]

Score(w) == RankedRow[w]

RowLen == Cardinality(DOMAIN RankedRow)

Taken == {top_words[a] : a \in 1..Len(top_words)}

\* top_words holds indices of largest values: no index left out has a
\* larger value than one taken.
HoldsLargest ==
    \A w \in DOMAIN RankedRow \ Taken : \A t \in Taken : ~Less(Score(t), Score(w))

\* relevance {1: 0.9, 2: 0.5, 5: 0.5}, all other entries 0
ExampleRow ==
    [w \in 0..(TopKLen - 1) |->
        Real(IF w = 1 THEN 9 ELSE IF w \in {2, 5} THEN 5 ELSE 0, 10 * 10)]

IsExample == DOMAIN RankedRow = DOMAIN ExampleRow /\ RankedRow = ExampleRow /\ top_what = 2

\* C1 as stated: top_words holds the indices of the top_what largest values
\* in descending order of value, the lower index first among equal values;
\* the example yields [1, 2].
C1_TiesLowestIndexFirst ==
    (Ranked /\ top_what \in 1..RowLen) =>
        /\ Len(top_words) = top_what
        /\ HoldsLargest
        /\ \A a, b \in 1..Len(top_words) :
               a < b => \/ Less(Score(top_words[b]), Score(top_words[a]))
                        \/ /\ Same(Score(top_words[a]), Score(top_words[b]))
                           /\ top_words[a] < top_words[b]
        /\ (IsExample => top_words = <<1, 2>>)

\* C1 amended: top_words holds the indices of the top_what largest values in
\* descending order of value; indices of equal value come in no fixed order
\* (the lower index need not come first): the example yields [1, 2] or [1, 5].
C1_DescendingByValue ==
    (Ranked /\ top_what \in 1..RowLen) =>
        /\ Len(top_words) = top_what
        /\ Cardinality(Taken) = top_what
        /\ HoldsLargest
        /\ \A a, b \in 1..Len(top_words) :
               a < b => ~Less(Score(top_words[a]), Score(top_words[b]))
        /\ (IsExample => top_words \in {<<1, 2>>, <<1, 5>>})

\* C1's case: the example ranked with the higher index of the tie first.
C1_Witness == Ranked /\ IsExample /\ top_words = <<1, 5>>

\* The arguments C4 names: k > d, k < 0, or fewer than k nonzero entries
\* (a score is nonzero only where the feature value is).
NonZeros(row) == Cardinality({w \in DOMAIN row : row[w].num # 0})

BadArgument(row) ==
    \/ top_what > Cardinality(DOMAIN row)
    \/ top_what < 0
    \/ NonZeros(row) < top_what

\* C4 as stated: with such an argument the ranking fails and returns no
\* indices, so the iteration never completes and top_words is never assigned.
C4_FailsOnBadArgument ==
    (pc \in {"loop", "done"} /\ BadArgument(word_scores[sample[1]])) =>
        (i = 0 /\ top_words = Unset)

\* C4 amended: the ranking never fails.  Whatever top_what is, the iteration
\* can run (the guard of TopWords holds), and it returns distinct indices of
\* the row: min(k, d) of them for k >= 1 (also when fewer than k entries are
\* nonzero), all d for k = 0, and max(d + k, 0) for k < 0.
C4_NeverFails ==
    /\ pc = "loop" =>
           /\ i < Len(sample)
           /\ TopWordsOf(word_scores[sample[i + 1]], top_what) # {}
    /\ Ranked =>
        /\ Cardinality(Taken) = Len(top_words)
        /\ Taken \subseteq DOMAIN RankedRow
        /\ Len(top_words) =
               IF top_what >= 1
               THEN (IF top_what < RowLen THEN top_what ELSE RowLen)
               ELSE IF top_what = 0 THEN RowLen
               ELSE (IF RowLen + top_what > 0 THEN RowLen + top_what ELSE 0)

\* C4's case: a ranking that returned indices although k > d, and one that
\* returned k indices of a row with fewer than k nonzero entries.
C4_Witness ==
    /\ Ranked
    /\ \/ top_what > RowLen /\ Len(top_words) = RowLen
       \/ top_what \in 1..RowLen /\ NonZeros(RankedRow) < top_what
                                 /\ Len(top_words) = top_what

\* A column of the prediction matrix has zero variance.
ZeroVarianceColumn ==
    \E c \in Classes : ScaledVar(Column(predictions_proba, c)) = 0

\* C2 as stated: when a column of the prediction matrix has zero variance,
\* pattern estimation fails and no pattern is ever produced.
C2_DegenerateColumnFails ==
    (predictions_proba # Unset /\ ZeroVarianceColumn) => pattern = Unset

\* C2 amended: when a column of the prediction matrix has zero variance,
\* pattern estimation raises no error: the scaler divides that column by a
\* scale of 1, the centred column is all zeros, and the pattern returned is
\* the all-zero vector of length d, no entry of which is NaN.
C2_DegenerateColumnZeroPattern ==
    (predictions_proba # Unset /\ ZeroVarianceColumn) =>
        /\ labels_normalized # Unset =>
               \A r \in Docs : \A c \in Classes :
                   IsFinite(labels_normalized[r][c]) /\ labels_normalized[r][c].num = 0
        /\ pc = "pattern" => ENABLED Pattern
        /\ pattern # Unset =>
               /\ DOMAIN pattern = Vocabulary
               /\ \A j \in Vocabulary : IsFinite(pattern[j]) /\ pattern[j].num = 0

\* C2's case: a pattern returned for constant predictions over documents
\* that do contain words.
C2_Witness ==
    /\ predictions_proba # Unset
    /\ ZeroVarianceColumn
    /\ pattern # Unset
    /\ \A r \in Docs : \E j \in Vocabulary : X_test[r][j] > 0
    /\ X_test[0] # X_test[1]

PermuteRows(M, pi) == [r \in DOMAIN M |-> M[pi[r]]]

ScenarioVocabulary == <<"bad", "good", "great", "movie">>

IndexOf(word) == CHOOSE w \in 0..3 : ScenarioVocabulary[w + 1] = word

bad == IndexOf("bad")

great == IndexOf("great")

movie == IndexOf("movie")

\* doc A = "bad bad movie", predicted neg with p = 0.9;
\* doc B = "great great movie", predicted pos with p = 0.9.
\* The feature values are the term counts, so "movie" weighs the same in
\* both documents.
Scenario ==
    /\ X_test # Unset
    /\ DOMAIN X_test = 0..1
    /\ DOMAIN X_test[0] = 0..3
    /\ X_test[0] = [w \in 0..3 |-> IF w = bad THEN 2 ELSE IF w = movie THEN 1 ELSE 0]
    /\ X_test[1] = [w \in 0..3 |-> IF w = great THEN 2 ELSE IF w = movie THEN 1 ELSE 0]
    /\ 10 * predictions_proba[0][0] = 9 * ProbUnit
    /\ 10 * predictions_proba[1][1] = 9 * ProbUnit

\* C7: in the scenario the pattern (of class neg) of "bad" is larger than
\* that of "movie" and that of "great", and the top word of doc A is "bad".
C7_ScenarioRanksBad ==
    Scenario =>
        /\ pattern # Unset =>
               /\ Less(pattern[movie], pattern[bad])
               /\ Less(pattern[great], pattern[bad])
        /\ word_scores # Unset =>
               TopWordsOf(word_scores[0], 1) = {<<bad>>}
        /\ (Ranked /\ idx = 0) => top_words[1] = bad

\* C7's case: the scenario with the top words of doc A taken.
C7_Witness == Scenario /\ Ranked /\ idx = 0

\* C8: the relevance of a feature row under the opposite prediction sign is
\* the elementwise negation of its relevance.
C8_SignFlipNegates ==
    (word_scores # Unset /\ X_test # Unset) =>
        \A r \in Docs :
            /\ prediction_sign[r] \in {0 - 1, 1}
            /\ \A j \in Vocabulary :
                   ScoreRow(0 - prediction_sign[r], data_scaled[r], pattern)[j]
                       = Neg(word_scores[r][j])

\* C8's case: a row with a nonzero relevance.
C8_Witness ==
    /\ word_scores # Unset
    /\ X_test # Unset
    /\ \E r \in Docs : \E j \in Vocabulary : word_scores[r][j].num # 0

\* C9: prediction_sign is -1 or +1, never 0, and +1 exactly when class
\* column 0, whose pattern the scores multiply, has the highest probability.
C9_SignIsPlusOrMinusOne ==
    prediction_sign # Unset =>
        \A r \in Docs :
            /\ prediction_sign[r] \in {0 - 1, 1}
            /\ prediction_sign[r] = 1 <=>
                   \A c \in Classes : predictions_proba[r][c] <= predictions_proba[r][0]

\* C9's case: a sign of +1 and one of -1, and a document whose two class
\* probabilities are equal.
C9_Witness ==
    /\ prediction_sign # Unset
    /\ predictions_proba[0][0] = predictions_proba[0][1]
    /\ predictions_proba[1][0] < predictions_proba[1][1]
    /\ prediction_sign[0] = 1
    /\ prediction_sign[1] = 0 - 1

\* C10 as stated: every index of top_words is a term of the document.
C10_TopWordsOccurInDocument ==
    (Ranked /\ X_test # Unset) =>
        \A a \in 1..Len(top_words) : X_test[idx][top_words[a]] > 0

\* What the pattern statement would assign for class column c.
PatternOfClass(c) == Project(Column(labels_normalized, c), data_scaled)

====
